---- MODULE Spec2Model ----
(***************************************************************************)
(* Model of scripts/parse_gedcom.py: the GEDCOM line parser, the date      *)
(* normaliser, the person/family extraction, the relationship builder and  *)
(* the identifier remapper.  A Python str is a tuple of one-character      *)
(* strings, a list is a tuple, a dict whose iteration order matters is a   *)
(* tuple of [k, v] pairs in insertion order, and a dict that is only       *)
(* looked up is a function.                                                *)
(***************************************************************************)
EXTENDS Integers, Sequences, FiniteSets, TLC

VARIABLES lines, i, current_record, individuals, families, sources,
          people, family_data, relationships,
          id_mapping, inverted, date_str, result, pc

vars == <<lines, i, current_record, individuals, families, sources,
          people, family_data, relationships,
          id_mapping, inverted, date_str, result, pc>>

(* ----------------------------- characters ------------------------------ *)

\* Python's None; no str is equal to it, since a str holds one-character strings.
None == <<"None">>

Digits == <<"0","1","2","3","4","5","6","7","8","9">>

LowerLetters == <<"a","b","c","d","e","f","g","h","i","j","k","l","m","n","o","p","q","r","s","t","u","v","w","x","y","z">>

UpperLetters == <<"A","B","C","D","E","F","G","H","I","J","K","L","M","N","O","P","Q","R","S","T","U","V","W","X","Y","Z">>

IsDigit(c) == \E k \in 1..Len(Digits) : Digits[k] = c

IsLetter(c) == \E k \in 1..Len(LowerLetters) : LowerLetters[k] = c \/ UpperLetters[k] = c

\* \w of the re module, on the ASCII characters the model uses
IsWord(c) == IsDigit(c) \/ IsLetter(c) \/ c = "_"

\* \s of the re module and the characters str.strip() removes
IsSpace(c) == c = " " \/ c = "\t"

DigitVal(c) == (CHOOSE k \in 1..Len(Digits) : Digits[k] = c) - 1

UpperChar(c) ==
    IF \E k \in 1..Len(LowerLetters) : LowerLetters[k] = c
    THEN UpperLetters[CHOOSE k \in 1..Len(LowerLetters) : LowerLetters[k] = c]
    ELSE c

\* str.upper()
Upper(s) == [k \in 1..Len(s) |-> UpperChar(s[k])]

\* the number of characters from position p on that are of the class: digits
\* (d), word characters (w), whitespace (s), anything else than whitespace (n)
RECURSIVE Run(_, _, _)
Run(s, p, cls) ==
    IF p > Len(s) THEN 0
    ELSE IF (CASE cls = "d" -> IsDigit(s[p])
               [] cls = "w" -> IsWord(s[p])
               [] cls = "s" -> IsSpace(s[p])
               [] cls = "n" -> ~IsSpace(s[p]))
         THEN 1 + Run(s, p + 1, cls)
         ELSE 0

StripRuns(s, lead, trail) ==
    IF lead = Len(s) THEN <<>> ELSE SubSeq(s, lead + 1, Len(s) - trail)

\* str.strip()
Strip(s) == StripRuns(s, Run(s, 1, "s"), Run([k \in 1..Len(s) |-> s[Len(s) + 1 - k]], 1, "s"))

\* int() of a run of decimal digits
RECURSIVE ToInt(_)
ToInt(ds) ==
    IF ds = <<>> THEN 0
    ELSE 10 * ToInt(SubSeq(ds, 1, Len(ds) - 1)) + DigitVal(ds[Len(ds)])

\* str.replace('@', '')
StripAt(s) == SelectSeq(s, LAMBDA c : c # "@")

\* Python truthiness of an optional str
Truthy(v) == v # None /\ v # <<>>

(* ------------------------------ tokenizer ------------------------------ *)

NoMatch == [ok |-> FALSE, level |-> 0, xref_id |-> None, tag |-> <<>>, value |-> <<>>]

\* the groups once the tag is found at position q with t characters, the text
\* before it being d digits and, where x > 0, a cross-reference id of x
\* characters at position p
MatchGroups(line, d, p, x, q, t) ==
    IF t = 0 THEN NoMatch
    ELSE [ok |-> TRUE,
          level |-> ToInt(SubSeq(line, 1, d)),
          xref_id |-> IF x > 0 THEN SubSeq(line, p, p + x - 1) ELSE None,
          tag |-> SubSeq(line, q, q + t - 1),
          value |-> SubSeq(line, q + t + Run(line, q + t, "s"), Len(line))]

\* \s*(\w+) from position q0 on
MatchTag(line, d, p, x, q) == MatchGroups(line, d, p, x, q, Run(line, q, "w"))

\* (@\w+@)? at position p, where xw word characters follow it
MatchXref(line, d, p, xw) ==
    IF /\ p <= Len(line) /\ line[p] = "@"
       /\ xw >= 1
       /\ p + 1 + xw <= Len(line) /\ line[p + 1 + xw] = "@"
    THEN MatchTag(line, d, p, xw + 2, p + xw + 2 + Run(line, p + xw + 2, "s"))
    ELSE MatchTag(line, d, p, 0, p)

\* ^(\d+)\s+ of d digits and w blanks
MatchLevel(line, d, w) ==
    IF d = 0 \/ w = 0 THEN NoMatch
    ELSE MatchXref(line, d, d + w + 1, Run(line, d + w + 2, "w"))

MatchDigits(line, d) == MatchLevel(line, d, Run(line, d + 1, "s"))

\* re.match(r'^(\d+)\s+(@\w+@)?\s*(\w+)\s*(.*)?$', line): the groups, with
\* level = int(group 1) and value = group 4 or ''
Match(line) == MatchDigits(line, Run(line, 1, "d"))

(* ----------------------------- format_date ---------------------------- *)

\* str(n) of a non-negative int
RECURSIVE IntToStr(_)
IntToStr(n) ==
    IF n < 10 THEN <<Digits[n + 1]>>
    ELSE IntToStr(n \div 10) \o <<Digits[(n % 10) + 1]>>

StartsWith(s, p) == Len(s) >= Len(p) /\ SubSeq(s, 1, Len(p)) = p

\* the month names of the C locale: strftime('%B'), and what %B and %b accept
MonthNames ==
    << <<"J","a","n","u","a","r","y">>, <<"F","e","b","r","u","a","r","y">>, <<"M","a","r","c","h">>, <<"A","p","r","i","l">>, <<"M","a","y">>, <<"J","u","n","e">>,
       <<"J","u","l","y">>, <<"A","u","g","u","s","t">>, <<"S","e","p","t","e","m","b","e","r">>, <<"O","c","t","o","b","e","r">>, <<"N","o","v","e","m","b","e","r">>, <<"D","e","c","e","m","b","e","r">> >>

MonthAbbr == [k \in 1..Len(MonthNames) |-> SubSeq(MonthNames[k], 1, 3)]

\* the list the loop over the qualifier prefixes walks, in its order
Prefixes == << <<"A","B","T"," ">>, <<"A","B","O","U","T"," ">>, <<"C","I","R","C","A"," ">>, <<"B","E","F"," ">>, <<"A","F","T"," ">>, <<"E","S","T"," ">> >>

\* prefix_map with BEF taken for an approximation
PrefixMapAllCirca(p) == <<"c","i","r","c","a"," ">>

\* prefix_map.get(p.upper(), '')
PrefixMap(p) ==
    CASE p = <<"A","B","T"," ">> -> <<"c","i","r","c","a"," ">>
      [] p = <<"A","B","O","U","T"," ">> -> <<"c","i","r","c","a"," ">>
      [] p = <<"C","I","R","C","A"," ">> -> <<"c","i","r","c","a"," ">>
      [] p = <<"B","E","F"," ">> -> <<"b","e","f","o","r","e"," ">>
      [] p = <<"A","F","T"," ">> -> <<"a","f","t","e","r"," ">>
      [] p = <<"E","S","T"," ">> -> <<"c","i","r","c","a"," ">>
      [] OTHER -> <<>>

\* date_formats, each a list of directives and literal characters
DateFormats ==
    << <<"%d", " ", "%b", " ", "%Y">>,
       <<"%d", " ", "%B", " ", "%Y">>,
       <<"%b", " ", "%d", ",", " ", "%Y">>,
       <<"%B", " ", "%d", ",", " ", "%Y">>,
       <<"%d", " ", "%b", " ", "%y">>,
       <<"%Y">>,
       <<"%b", " ", "%Y">>,
       <<"%B", " ", "%Y">> >>

Failed == [ok |-> FALSE, day |-> 1, month |-> 1, year |-> 1900]

DigitAt(s, p) == p <= Len(s) /\ IsDigit(s[p])

\* whether the text has the name at position p, in any case
NameAt(s, p, name) ==
    /\ p + Len(name) - 1 <= Len(s)
    /\ Upper(SubSeq(s, p, p + Len(name) - 1)) = Upper(name)

\* the month whose name, from names, the text has at position p, or 0
RECURSIVE MonthAt(_, _, _, _)
MonthAt(s, p, names, k) ==
    IF k > Len(names) THEN 0
    ELSE IF NameAt(s, p, names[k]) THEN k
    ELSE MonthAt(s, p, names, k + 1)

\* %y: 69..99 are years of the 1900s, 0..68 years of the 2000s
Century(y) == IF y <= 68 THEN 2000 + y ELSE 1900 + y

\* the regular expression _strptime builds from the format, matched from
\* position p on with directive k: %d is 3[0-1]|[1-2]\d|0[1-9]|[1-9]| [1-9], %b
\* and %B a month name in any case, %Y four digits, %y two digits, a blank of the
\* format \s+; all of the text is to be consumed
RECURSIVE MatchFormat(_, _, _, _, _)
RECURSIVE MatchBlank(_, _, _, _, _, _)
RECURSIVE MatchMonth(_, _, _, _, _, _, _)

MatchBlank(s, p, fmt, k, acc, r) ==
    IF r = 0 THEN Failed ELSE MatchFormat(s, p + r, fmt, k + 1, acc)

MatchMonth(s, p, fmt, k, acc, names, mo) ==
    IF mo = 0 THEN Failed
    ELSE MatchFormat(s, p + Len(names[mo]), fmt, k + 1, [acc EXCEPT !.month = mo])

MatchFormat(s, p, fmt, k, acc) ==
    IF k > Len(fmt) THEN (IF p = Len(s) + 1 THEN acc ELSE Failed)
    ELSE CASE fmt[k] = " " -> MatchBlank(s, p, fmt, k, acc, Run(s, p, "s"))
           [] fmt[k] = "," ->
                IF p <= Len(s) /\ s[p] = "," THEN MatchFormat(s, p + 1, fmt, k + 1, acc)
                ELSE Failed
           [] fmt[k] = "%d" ->
                IF DigitAt(s, p) /\ DigitAt(s, p + 1)
                   /\ ToInt(SubSeq(s, p, p + 1)) \in 1..31
                THEN MatchFormat(s, p + 2, fmt, k + 1,
                                 [acc EXCEPT !.day = ToInt(SubSeq(s, p, p + 1))])
                ELSE IF DigitAt(s, p) /\ s[p] # "0"
                THEN MatchFormat(s, p + 1, fmt, k + 1, [acc EXCEPT !.day = DigitVal(s[p])])
                ELSE IF p <= Len(s) /\ s[p] = " " /\ DigitAt(s, p + 1) /\ s[p + 1] # "0"
                THEN MatchFormat(s, p + 2, fmt, k + 1,
                                 [acc EXCEPT !.day = DigitVal(s[p + 1])])
                ELSE Failed
           [] fmt[k] = "%b" ->
                MatchMonth(s, p, fmt, k, acc, MonthAbbr, MonthAt(s, p, MonthAbbr, 1))
           [] fmt[k] = "%B" ->
                MatchMonth(s, p, fmt, k, acc, MonthNames, MonthAt(s, p, MonthNames, 1))
           [] fmt[k] = "%Y" ->
                IF \A x \in 0..3 : DigitAt(s, p + x)
                THEN MatchFormat(s, p + 4, fmt, k + 1,
                                 [acc EXCEPT !.year = ToInt(SubSeq(s, p, p + 3))])
                ELSE Failed
           [] fmt[k] = "%y" ->
                IF DigitAt(s, p) /\ DigitAt(s, p + 1)
                THEN MatchFormat(s, p + 2, fmt, k + 1,
                                 [acc EXCEPT !.year = Century(ToInt(SubSeq(s, p, p + 1)))])
                ELSE Failed

IsLeap(y) == y % 4 = 0 /\ (y % 100 # 0 \/ y % 400 = 0)

DaysIn(mo, y) ==
    IF mo = 2 THEN (IF IsLeap(y) THEN 29 ELSE 28)
    ELSE IF mo \in {4, 6, 9, 11} THEN 30 ELSE 31

\* datetime(year, month, day) of the matched fields, which raises ValueError
\* for the year 0 and for a day the month does not have
Validated(r) ==
    IF r.ok /\ r.year >= 1 /\ r.day <= DaysIn(r.month, r.year) THEN r ELSE Failed

\* datetime.strptime(date_str, fmt): ok is FALSE where it raises ValueError
Strptime(s, fmt) ==
    Validated(MatchFormat(s, 1, fmt, 1, [ok |-> TRUE, day |-> 1, month |-> 1, year |-> 1900]))

\* the returned text for the format of index n
Render(prefix, n, dt) ==
    IF n = 6 THEN prefix \o IntToStr(dt.year)
    ELSE IF n \in {7, 8} THEN prefix \o MonthNames[dt.month] \o <<" ">> \o IntToStr(dt.year)
    ELSE prefix \o MonthNames[dt.month] \o <<" ">> \o IntToStr(dt.day) \o <<","," ">>
                \o IntToStr(dt.year)

\* the loop over date_formats from the format of index n on: the index of the
\* first format strptime accepts, or 0
RECURSIVE FirstFormat(_, _)
FirstFormat(rest, n) ==
    IF n > Len(DateFormats) THEN 0
    ELSE IF Strptime(rest, DateFormats[n]).ok THEN n
    ELSE FirstFormat(rest, n + 1)

\* the loop over the prefixes from the prefix of index n on: the first one the
\* upper-cased text starts with, or ''
RECURSIVE FirstPrefix(_, _)
FirstPrefix(upper, n) ==
    IF n > Len(Prefixes) THEN <<>>
    ELSE IF StartsWith(upper, Prefixes[n]) THEN Prefixes[n]
    ELSE FirstPrefix(upper, n + 1)

\* the part of format_date after the prefix loop, n being the first format
\* that parses the rest
FormatParsed(prefix, rest, n) ==
    IF n # 0 THEN Render(prefix, n, Strptime(rest, DateFormats[n]))
    ELSE IF rest # <<>> THEN prefix \o rest ELSE None

\* prefix = prefix_map.get(p.upper(), ''); date_str = date_str[len(p):]
FormatPrefixed(s, p) ==
    FormatParsed(IF p = <<>> THEN <<>> ELSE PrefixMap(Upper(p)),
                 SubSeq(s, Len(p) + 1, Len(s)),
                 FirstFormat(SubSeq(s, Len(p) + 1, Len(s)), 1))

FormatStripped(s) == FormatPrefixed(s, FirstPrefix(Upper(s), 1))

format_date(ds) == IF ~Truthy(ds) THEN None ELSE FormatStripped(Strip(ds))

(* ------------------------------- dicts --------------------------------- *)

\* a dict in insertion order: a tuple of [k, v]
DictHas(d, k) == \E n \in 1..Len(d) : d[n].k = k

DictGet(d, k) == d[CHOOSE n \in 1..Len(d) : d[n].k = k].v

\* d[k] = v: a key already present keeps its place
DictSet(d, k, v) ==
    IF DictHas(d, k)
    THEN [n \in 1..Len(d) |-> IF d[n].k = k THEN [k |-> k, v |-> v] ELSE d[n]]
    ELSE Append(d, [k |-> k, v |-> v])

\* d.get(k, default)
DictGetOr(d, k, default) == IF DictHas(d, k) THEN DictGet(d, k) ELSE default

\* {} of a dict that is only looked up
EmptyMap == [t \in {} |-> <<>>]

\* m.setdefault(k, []).append(x) on a dict of lists
MapAppend(m, k, x) ==
    [t \in DOMAIN m \cup {k} |->
        IF t = k THEN Append(IF k \in DOMAIN m THEN m[k] ELSE <<>>, x) ELSE m[t]]

(* ------------------------- the files considered ----------------------- *)

MaxLines == 5

ParsePool ==
    { <<"0"," ","@","I","1","@"," ","I","N","D","I">>, <<"0"," ","H","E","A","D">>, <<"0"," ","@","X","1","@"," ","S","U","B","M">>, <<"1"," ","B","I","R","T">>,
      <<"2"," ","D","A","T","E"," ","1","9","0","0">>, <<"3"," ","T","I","M","E"," ","x">>, <<"-","-"," ","j","u","n","k">>, <<>> }

RECURSIVE SeqsUpTo(_, _)
SeqsUpTo(S, n) ==
    IF n = 0 THEN {<<>>}
    ELSE LET shorter == SeqsUpTo(S, n - 1)
         IN shorter \cup {Append(q, x) : q \in {r \in shorter : Len(r) = n - 1}, x \in S}

MaxRecords == 3

\* records as they stand in a GEDCOM export, and damaged ones: a person listed
\* twice, a family listed twice, a child listed twice, an empty or missing
\* spouse, a spouse and a child that are no person of the file
Blocks ==
    { << <<"0"," ","@","I","1","@"," ","I","N","D","I">>, <<"1"," ","N","A","M","E"," ","J","o","h","n"," ","R","o","b","e","r","t"," ","/","S","m","i","t","h","/">>, <<"1"," ","S","E","X"," ","M">> >>,
      << <<"0"," ","@","I","1","@"," ","I","N","D","I">> >>,
      << <<"0"," ","@","I","2","@"," ","I","N","D","I">>, <<"1"," ","R","E","S","I">>, <<"2"," ","D","A","T","E"," ","A","B","T"," ","1","8","5","0">>, <<"2"," ","P","L","A","C"," ","O","h","i","o">>, <<"1"," ","R","E","S","I">> >>,
      << <<"0"," ","@","I","2","@"," ","I","N","D","I">>, <<"1"," ","R","E","S","I">>, <<"2"," ","D","A","T","E">>, <<"1"," ","N","O","T","E"," ","a">> >>,
      << <<"0"," ","@","I","3","@"," ","I","N","D","I">>, <<"1"," ","B","I","R","T">>, <<"2"," ","D","A","T","E"," ","1","5"," ","M","a","r"," ","1","8","9","2">>, <<"2"," ","N","O","T","E"," ","h","o","m","e">> >>,
      << <<"0"," ","H","E","A","D">>, <<"1"," ","C","H","A","R"," ","U","T","F","-","8">>, <<"0"," ","@","S","1","@"," ","S","O","U","R">>, <<"1"," ","T","I","T","L"," ","C","e","n","s","u","s">> >>,
      << <<"0"," ","@","F","1","@"," ","F","A","M">>, <<"1"," ","H","U","S","B"," ","@","I","1","@">>, <<"1"," ","W","I","F","E"," ","@","I","2","@">>, <<"1"," ","C","H","I","L"," ","@","I","3","@">>,
         <<"1"," ","M","A","R","R">>, <<"2"," ","D","A","T","E"," ","B","E","F"," ","1","2"," ","J","a","n"," ","1","9","2","0">> >>,
      << <<"0"," ","@","F","1","@"," ","F","A","M">>, <<"1"," ","H","U","S","B"," ","@","I","1","@">>, <<"1"," ","W","I","F","E"," ","@","I","2","@">>, <<"1"," ","C","H","I","L"," ","@","I","3","@">>, <<"1"," ","C","H","I","L"," ","@","I","3","@">> >>,
      << <<"0"," ","@","F","2","@"," ","F","A","M">>, <<"1"," ","H","U","S","B">>, <<"1"," ","W","I","F","E"," ","@","I","2","@">>, <<"1"," ","C","H","I","L"," ","@","I","1","@">> >>,
      << <<"0"," ","@","F","2","@"," ","F","A","M">>, <<"1"," ","W","I","F","E"," ","@","I","9","@">>, <<"1"," ","H","U","S","B"," ","@","I","1","@">>, <<"1"," ","C","H","I","L"," ","@","I","9","@">>, <<"1"," ","C","H","I","L"," ","@","I","3","@">> >>,
      << <<"0"," ","@","F","3","@"," ","F","A","M">>, <<"1"," ","C","H","I","L"," ","@","I","3","@">> >>,
      << <<"0"," ","@","F","3","@"," ","F","A","M">>, <<"1"," ","H","U","S","B"," ","@","@">>, <<"1"," ","W","I","F","E"," ","@","I","2","@">>, <<"1"," ","C","H","I","L">> >> }

RECURSIVE Flatten(_)
Flatten(bs) == IF bs = <<>> THEN <<>> ELSE bs[1] \o Flatten(Tail(bs))

\* the files of at most MaxRecords of these records
Files == {Flatten(bs) : bs \in SeqsUpTo(Blocks, MaxRecords)}

\* every line of every file considered
AllLines == ParsePool \cup UNION {{b[k] : k \in 1..Len(b)} : b \in Blocks}

\* line.strip() and the re.match of it
Token(line) == [line |-> line, m |-> Match(line)]

\* the token of each line of the files considered, tabulated
TokenOf == [l \in AllLines |-> Token(Strip(l))]

(* ---------------------------- parse_gedcom ----------------------------- *)

INDI == <<"I","N","D","I">>

FAM == <<"F","A","M">>

SOUR == <<"S","O","U","R">>

\* current_record = None
NoRecord == [type |-> None, id |-> None]

NewRecord(type, xref_id) == [type |-> type, id |-> xref_id, raw |-> EmptyMap]

\* the look-ahead capturing every deeper line, not only those of level + 1
LookAheadDeepStep(ls, j, level, current_sub, sub_match) ==
    IF ~sub_match.ok THEN [stop |-> FALSE, sub |-> current_sub]
    ELSE IF sub_match.level <= level THEN [stop |-> TRUE, sub |-> current_sub]
    ELSE [stop |-> FALSE, sub |-> MapAppend(current_sub, sub_match.tag, sub_match.value)]

\* one iteration of the look-ahead loop on the line matched as sub_match: whether
\* the loop breaks, and current_sub after it
LookAheadStep(ls, j, level, current_sub, sub_match) ==
    IF ~sub_match.ok THEN [stop |-> FALSE, sub |-> current_sub]
    ELSE IF sub_match.level <= level THEN [stop |-> TRUE, sub |-> current_sub]
    ELSE IF sub_match.level = level + 1
         THEN [stop |-> FALSE, sub |-> MapAppend(current_sub, sub_match.tag, sub_match.value)]
         ELSE [stop |-> FALSE, sub |-> current_sub]

\* the look-ahead loop for sub-tags, from line j on (lines are numbered from 1)
RECURSIVE LookAhead(_, _, _, _)
RECURSIVE LookAheadNext(_, _, _, _)

LookAheadNext(ls, j, level, step) ==
    IF step.stop THEN step.sub ELSE LookAhead(ls, j + 1, level, step.sub)

LookAhead(ls, j, level, current_sub) ==
    IF j > Len(ls) THEN current_sub
    ELSE LookAheadNext(ls, j, level,
                       LookAheadStep(ls, j, level, current_sub, TokenOf[ls[j]].m))

\* current_record['raw'][tag].append({'value': value, 'sub': {...}}) with the
\* sub-tags of the look-ahead
StoreEntry(rec, ls, n, m) ==
    [rec EXCEPT !.raw = MapAppend(rec.raw, m.tag,
        [value |-> m.value, sub |-> LookAhead(ls, n + 1, m.level, EmptyMap)])]

\* the dict the record current_record points into, with the record updated
UpdateCurrent(d, type, ls, n, m) ==
    IF current_record.type = type
    THEN DictSet(d, current_record.id,
                 StoreEntry(DictGet(d, current_record.id), ls, n, m))
    ELSE d

\* OpenRecord keeping the open record at an unrecognized level-0 line
OpenRecordKeep(cur, m) ==
    IF m.xref_id # None /\ (m.tag = INDI \/ m.tag = FAM \/ m.tag = SOUR)
    THEN [type |-> m.tag, id |-> m.xref_id]
    ELSE cur

\* current_record after a level-0 line: a record of a recognized tag with a
\* cross-reference id, else None
OpenRecord(cur, m) ==
    IF m.xref_id # None /\ (m.tag = INDI \/ m.tag = FAM \/ m.tag = SOUR)
    THEN [type |-> m.tag, id |-> m.xref_id]
    ELSE NoRecord

\* OpenIn adding a record under a cross-reference id a second time
OpenInAppend(d, type, m) ==
    IF m.xref_id # None /\ m.tag = type
    THEN Append(d, [k |-> m.xref_id, v |-> NewRecord(type, m.xref_id)])
    ELSE d

\* the dict of the records of one type after a level-0 line
OpenIn(d, type, m) ==
    IF m.xref_id # None /\ m.tag = type
    THEN DictSet(d, m.xref_id, NewRecord(type, m.xref_id))
    ELSE d

\* the body of the outer while loop for the stripped line and its match m
ParseToken(line, m) ==
    IF line = <<>> \/ ~m.ok
    THEN UNCHANGED <<current_record, individuals, families, sources>>
    ELSE IF m.level = 0
    THEN /\ current_record' = OpenRecord(current_record, m)
         /\ individuals' = OpenIn(individuals, INDI, m)
         /\ families' = OpenIn(families, FAM, m)
         /\ sources' = OpenIn(sources, SOUR, m)
    ELSE IF current_record # NoRecord
    THEN /\ individuals' = UpdateCurrent(individuals, INDI, lines, i + 1, m)
         /\ families' = UpdateCurrent(families, FAM, lines, i + 1, m)
         /\ sources' = UpdateCurrent(sources, SOUR, lines, i + 1, m)
         /\ UNCHANGED current_record
    ELSE UNCHANGED <<current_record, individuals, families, sources>>

ParseTokenOf(tok) == ParseToken(tok.line, tok.m)

\* one iteration of the outer while loop, on line i (0-based, as in the code)
ParseLine ==
    /\ pc = "parse"
    /\ i < Len(lines)
    /\ ParseTokenOf(TokenOf[lines[i + 1]])
    /\ i' = i + 1
    /\ UNCHANGED <<lines, people, family_data, relationships,
                   id_mapping, inverted, date_str, result, pc>>

\* the loop ends: return individuals, families, sources
ParseReturn ==
    /\ pc = "parse"
    /\ i >= Len(lines)
    /\ pc' = "parsed"
    /\ UNCHANGED <<lines, i, current_record, individuals, families, sources,
                   people, family_data, relationships,
                   id_mapping, inverted, date_str, result>>

(* --------------------- extract_person, extract_family ------------------ *)

NAME == <<"N","A","M","E">>
GIVN == <<"G","I","V","N">>
SEX == <<"S","E","X">>
BIRT == <<"B","I","R","T">>
DEAT == <<"D","E","A","T">>
DATE == <<"D","A","T","E">>
PLAC == <<"P","L","A","C">>
NOTE == <<"N","O","T","E">>
RESI == <<"R","E","S","I">>
FAMC == <<"F","A","M","C">>
FAMS == <<"F","A","M","S">>
HUSB == <<"H","U","S","B">>
WIFE == <<"W","I","F","E">>
CHIL == <<"C","H","I","L">>
MARR == <<"M","A","R","R">>
DIV == <<"D","I","V">>

\* the positions of the slashes of a name
Slashes(s) == {k \in 1..Len(s) : s[k] = "/"}

\* the least of a set of positions
First(S) == CHOOSE k \in S : \A o \in S : k <= o

\* re.search(r'/([^/]*)/', full_name): group 1, or None without a match
Surname(s) ==
    IF Cardinality(Slashes(s)) < 2 THEN None
    ELSE SubSeq(s, First(Slashes(s)) + 1, First(Slashes(s) \ {First(Slashes(s))}) - 1)

\* re.sub(r'/[^/]*/', '', full_name)
RECURSIVE RemoveSlashed(_)
RemoveSlashed(s) ==
    IF Cardinality(Slashes(s)) < 2 THEN s
    ELSE SubSeq(s, 1, First(Slashes(s)) - 1)
         \o RemoveSlashed(SubSeq(s, First(Slashes(s) \ {First(Slashes(s))}) + 1, Len(s)))

\* str.split()
RECURSIVE Split(_)
RECURSIVE SplitStripped(_)

SplitStripped(t) ==
    IF t = <<>> THEN <<>>
    ELSE <<SubSeq(t, 1, Run(t, 1, "n"))>> \o Split(SubSeq(t, Run(t, 1, "n") + 1, Len(t)))

Split(s) == SplitStripped(Strip(s))

\* ' '.join(parts)
RECURSIVE Join(_)
Join(parts) ==
    IF parts = <<>> THEN <<>>
    ELSE IF Len(parts) = 1 THEN parts[1]
    ELSE parts[1] \o <<" ">> \o Join(Tail(parts))

\* the first DATE sub-tag of an entry through format_date, where there is one
SubDate(entry) == IF DATE \in DOMAIN entry.sub THEN format_date(entry.sub[DATE][1]) ELSE None

\* the first PLAC sub-tag of an entry, where there is one
SubPlace(entry) == IF PLAC \in DOMAIN entry.sub THEN entry.sub[PLAC][1] ELSE None

\* the dict built for one RESI entry: it has the key 'date' where the entry has a
\* DATE sub-tag and the key 'place' where it has a PLAC sub-tag
Residence(resi) ==
    [f \in {x \in {"date", "place"} :
              (x = "date" /\ DATE \in DOMAIN resi.sub) \/ (x = "place" /\ PLAC \in DOMAIN resi.sub)}
       |-> IF f = "date" THEN SubDate(resi) ELSE SubPlace(resi)]

\* the loop over raw['RESI']: a residence is appended where its dict is not empty
Residences(raw) ==
    IF RESI \in DOMAIN raw
    THEN SelectSeq([n \in 1..Len(raw[RESI]) |-> Residence(raw[RESI][n])],
                   LAMBDA r : DOMAIN r # {})
    ELSE <<>>

\* [e['value'] for e in raw.get(tag, [])]
ValuesOf(raw, tag) ==
    IF tag \in DOMAIN raw THEN [n \in 1..Len(raw[tag]) |-> raw[tag][n].value] ELSE <<>>

\* name_parts: the given names, from the GIVN sub-tag or the name without the
\* surname
NameParts(raw) ==
    IF NAME \notin DOMAIN raw THEN <<>>
    ELSE IF GIVN \in DOMAIN raw[NAME][1].sub
         THEN Split(raw[NAME][1].sub[GIVN][1])
         ELSE Split(Strip(RemoveSlashed(raw[NAME][1].value)))

FirstName(name_parts) == IF name_parts # <<>> THEN name_parts[1] ELSE <<>>

MiddleName(name_parts) == IF Len(name_parts) > 1 THEN Join(Tail(name_parts)) ELSE None

LastName(surname) == IF surname # None THEN surname ELSE <<>>

Gender(sex) == IF sex = <<"M">> THEN <<"m","a","l","e">> ELSE IF sex = <<"F">> THEN <<"f","e","m","a","l","e">> ELSE None

\* ' '.join(notes) of the NOTE values that are not empty, or None
Notes(notes) == IF notes # <<>> THEN Join(notes) ELSE None

extract_person(indi_data) ==
    LET raw == indi_data.raw
    IN [id |-> StripAt(indi_data.id),
        firstName |-> FirstName(NameParts(raw)),
        middleName |-> MiddleName(NameParts(raw)),
        lastName |-> IF NAME \in DOMAIN raw THEN LastName(Surname(raw[NAME][1].value)) ELSE <<>>,
        maidenName |-> None,
        gender |-> IF SEX \in DOMAIN raw THEN Gender(raw[SEX][1].value) ELSE None,
        birth |-> IF BIRT \in DOMAIN raw
                  THEN [date |-> SubDate(raw[BIRT][1]), place |-> SubPlace(raw[BIRT][1])]
                  ELSE [date |-> None, place |-> None],
        death |-> IF DEAT \in DOMAIN raw
                  THEN [date |-> SubDate(raw[DEAT][1]), place |-> SubPlace(raw[DEAT][1])]
                  ELSE [date |-> None, place |-> None],
        notes |-> Notes(SelectSeq(ValuesOf(raw, NOTE), LAMBDA v : v # <<>>)),
        profilePhoto |-> None,
        residences |-> Residences(raw),
        ancestryId |-> indi_data.id,
        famc |-> ValuesOf(raw, FAMC),
        fams |-> ValuesOf(raw, FAMS)]

extract_family(fam_data) ==
    LET raw == fam_data.raw
    IN [id |-> StripAt(fam_data.id),
        husband |-> IF HUSB \in DOMAIN raw THEN StripAt(raw[HUSB][1].value) ELSE None,
        wife |-> IF WIFE \in DOMAIN raw THEN StripAt(raw[WIFE][1].value) ELSE None,
        children |-> [n \in 1..Len(ValuesOf(raw, CHIL)) |-> StripAt(ValuesOf(raw, CHIL)[n])],
        marriageDate |-> IF MARR \in DOMAIN raw THEN SubDate(raw[MARR][1]) ELSE None,
        marriagePlace |-> IF MARR \in DOMAIN raw THEN SubPlace(raw[MARR][1]) ELSE None,
        divorceDate |-> IF DIV \in DOMAIN raw THEN SubDate(raw[DIV][1]) ELSE None,
        ancestryId |-> fam_data.id]

(* -------------------------- build_relationships ------------------------ *)

\* f'{n:03d}'
Pad3(n) ==
    IF n < 10 THEN <<"0","0">> \o IntToStr(n)
    ELSE IF n < 100 THEN <<"0">> \o IntToStr(n)
    ELSE IntToStr(n)

SPOUSE == <<"s","p","o","u","s","e">>

PARENT_CHILD == <<"p","a","r","e","n","t","-","c","h","i","l","d">>

\* ChildEdges passing over a child id an earlier CHIL line carries
RECURSIVE ChildEdgesOnce(_, _, _, _)
ChildEdgesOnce(parents, children, c, rel_id) ==
    IF c > Len(children) THEN <<>>
    ELSE IF \E b \in 1..(c - 1) : children[b] = children[c]
    THEN ChildEdgesOnce(parents, children, c + 1, rel_id)
    ELSE [n \in 1..Len(parents) |->
             [id |-> <<"r">> \o Pad3(rel_id + n - 1), type |-> PARENT_CHILD,
              parent |-> parents[n], child |-> children[c]]]
         \o ChildEdgesOnce(parents, children, c + 1, rel_id + Len(parents))

\* the edges the inner loops append for the children from index c on, the first
\* of them numbered rel_id
RECURSIVE ChildEdges(_, _, _, _)
ChildEdges(parents, children, c, rel_id) ==
    IF c > Len(children) THEN <<>>
    ELSE [n \in 1..Len(parents) |->
             [id |-> <<"r">> \o Pad3(rel_id + n - 1), type |-> PARENT_CHILD,
              parent |-> parents[n], child |-> children[c]]]
         \o ChildEdges(parents, children, c + 1, rel_id + Len(parents))

\* SpouseEdge for a family with a husband or a wife
SpouseEdgeEither(family, rel_id) ==
    IF Truthy(family.husband) \/ Truthy(family.wife)
    THEN << [id |-> <<"r">> \o Pad3(rel_id), type |-> SPOUSE,
             person1 |-> family.husband, person2 |-> family.wife,
             marriageDate |-> family.marriageDate,
             marriagePlace |-> family.marriagePlace,
             divorceDate |-> family.divorceDate] >>
    ELSE <<>>

\* the spouse edge, where both husband and wife are set
SpouseEdge(family, rel_id) ==
    IF Truthy(family.husband) /\ Truthy(family.wife)
    THEN << [id |-> <<"r">> \o Pad3(rel_id), type |-> SPOUSE,
             person1 |-> family.husband, person2 |-> family.wife,
             marriageDate |-> family.marriageDate,
             marriagePlace |-> family.marriagePlace,
             divorceDate |-> family.divorceDate] >>
    ELSE <<>>

\* parents = [p for p in [family['husband'], family['wife']] if p]
Parents(family) == SelectSeq(<<family.husband, family.wife>>, Truthy)

\* the edges one iteration of the loop over the families appends
FamilyEdges(family, rel_id) ==
    SpouseEdge(family, rel_id)
        \o ChildEdges(Parents(family), family.children, 1,
                      rel_id + Len(SpouseEdge(family, rel_id)))

\* BuildFrom numbering the edges of each family from 1
RECURSIVE BuildFromRestart(_, _, _)
BuildFromRestart(fams, k, rels) ==
    IF k > Len(fams) THEN rels
    ELSE BuildFromRestart(fams, k + 1, rels \o FamilyEdges(fams[k].v, 1))

\* the loop over families.items() from the family of index k on
RECURSIVE BuildFrom(_, _, _)
BuildFrom(fams, k, rels) ==
    IF k > Len(fams) THEN rels
    ELSE BuildFrom(fams, k + 1, rels \o FamilyEdges(fams[k].v, Len(rels) + 1))

build_relationships(fams) == BuildFrom(fams, 1, <<>>)

(* ---------------------- create_id_mapping, remap_ids ------------------- *)

RECURSIVE MappingFrom(_, _, _)
MappingFrom(ps, n, mapping) ==
    IF n > Len(ps) THEN mapping
    ELSE MappingFrom(ps, n + 1,
                     DictSet(mapping, StripAt(ps[n].ancestryId), <<"p">> \o Pad3(n)))

create_id_mapping(ps) == MappingFrom(ps, 1, <<>>)

\* the person with its id replaced and the internal fields deleted
RemapPerson(person, mapping) ==
    [f \in DOMAIN person \ {"famc", "fams", "ancestryId"} |->
        IF f = "id" THEN DictGet(mapping, StripAt(person.ancestryId)) ELSE person[f]]

\* id_mapping.get(v)
RemapValueStrict(mapping, v) == DictGetOr(mapping, v, None)

\* id_mapping.get(v, v)
RemapValue(mapping, v) == DictGetOr(mapping, v, v)

\* the edge with each endpoint field it carries, and that is not empty, replaced
RemapEdge(rel, mapping) ==
    [f \in DOMAIN rel |->
        IF f \in {"person1", "person2", "parent", "child"} /\ Truthy(rel[f])
        THEN RemapValue(mapping, rel[f])
        ELSE rel[f]]

(* --------------------------------- main -------------------------------- *)

\* the loop over individuals.items(): people.append(extract_person(indi_data))
ExtractPeople ==
    /\ pc = "parsed"
    /\ people' = [n \in 1..Len(individuals) |-> extract_person(individuals[n].v)]
    /\ pc' = "people"
    /\ UNCHANGED <<lines, i, current_record, individuals, families, sources,
                   family_data, relationships, id_mapping, inverted, date_str, result>>

RECURSIVE FamilyDataFrom(_, _, _)
FamilyDataFrom(fams, n, out) ==
    IF n > Len(fams) THEN out
    ELSE FamilyDataFrom(fams, n + 1,
                        DictSet(out, StripAt(fams[n].k), extract_family(fams[n].v)))

\* the loop over families.items(): family_data[fam_id.replace('@', '')] = ...
ExtractFamilies ==
    /\ pc = "people"
    /\ family_data' = FamilyDataFrom(families, 1, <<>>)
    /\ pc' = "families"
    /\ UNCHANGED <<lines, i, current_record, individuals, families, sources,
                   people, relationships, id_mapping, inverted, date_str, result>>

BuildRelationships ==
    /\ pc = "families"
    /\ relationships' = build_relationships(family_data)
    /\ pc' = "built"
    /\ UNCHANGED <<lines, i, current_record, individuals, families, sources,
                   people, family_data, id_mapping, inverted, date_str, result>>

CreateIdMapping ==
    /\ pc = "built"
    /\ id_mapping' = create_id_mapping(people)
    /\ pc' = "mapped"
    /\ UNCHANGED <<lines, i, current_record, individuals, families, sources,
                   people, family_data, relationships, inverted, date_str, result>>

RemapIds ==
    /\ pc = "mapped"
    /\ people' = [n \in 1..Len(people) |-> RemapPerson(people[n], id_mapping)]
    /\ relationships' = [n \in 1..Len(relationships) |-> RemapEdge(relationships[n], id_mapping)]
    /\ pc' = "remapped"
    /\ UNCHANGED <<lines, i, current_record, individuals, families, sources,
                   family_data, id_mapping, inverted, date_str, result>>

RECURSIVE InvertFrom(_, _, _)
InvertFrom(mapping, n, out) ==
    IF n > Len(mapping) THEN out
    ELSE InvertFrom(mapping, n + 1, DictSet(out, mapping[n].v, mapping[n].k))

\* inverted = {v: k for k, v in id_mapping.items()}, written to id_mapping.json
WriteIdMapping ==
    /\ pc = "remapped"
    /\ inverted' = InvertFrom(id_mapping, 1, <<>>)
    /\ pc' = "done"
    /\ UNCHANGED <<lines, i, current_record, individuals, families, sources,
                   people, family_data, relationships, id_mapping, date_str, result>>

(* ------------------- the parser on arbitrary line files ---------------- *)

InitRest ==
    /\ i = 0
    /\ current_record = NoRecord
    /\ individuals = <<>> /\ families = <<>> /\ sources = <<>>
    /\ people = <<>> /\ family_data = <<>>
    /\ relationships = <<>>
    /\ id_mapping = <<>> /\ inverted = <<>>
    /\ date_str = None /\ result = None
    /\ pc = "parse"

InitParse == lines \in SeqsUpTo(ParsePool, MaxLines) /\ InitRest

NextParse == ParseLine \/ ParseReturn

SpecParse == InitParse /\ [][NextParse]_vars

(* ----------------------------- the pipeline ---------------------------- *)

Init == lines \in Files /\ InitRest

Next ==
    \/ ParseLine
    \/ ParseReturn
    \/ ExtractPeople
    \/ ExtractFamilies
    \/ BuildRelationships
    \/ CreateIdMapping
    \/ RemapIds
    \/ WriteIdMapping

Spec == Init /\ [][Next]_vars

(* ------------------- claims about parse_gedcom ------------------------- *)

\* the token of line k of the file
Tok(k) == TokenOf[lines[k]].m

Min(S) == CHOOSE x \in S : \A y \in S : x <= y

Max(S) == CHOOSE x \in S : \A y \in S : x >= y

RECURSIVE SortedSeq(_)
SortedSeq(S) == IF S = {} THEN <<>> ELSE <<Min(S)>> \o SortedSeq(S \ {Min(S)})

AllRecords ==
    {individuals[n].v : n \in 1..Len(individuals)}
        \cup {families[n].v : n \in 1..Len(families)}
        \cup {sources[n].v : n \in 1..Len(sources)}

\* the level-0 line that opened the record as it stands: the last one read with
\* its tag and cross-reference id
Opener(rec) ==
    Max({k \in 1..i : Tok(k).ok /\ Tok(k).level = 0
                      /\ Tok(k).xref_id = rec.id /\ Tok(k).tag = rec.type})

\* the first grammar-matching line after k whose level is <= L, or the end of file
NextAtMost(k, L) ==
    Min({j \in (k + 1)..Len(lines) : Tok(j).ok /\ Tok(j).level <= L} \cup {Len(lines) + 1})

\* the lines read so far, of level > 0, between the record's opening line and
\* the next grammar-matching level-0 line
BodyLines(rec) ==
    {k \in (Opener(rec) + 1)..(NextAtMost(Opener(rec), 0) - 1) :
        k <= i /\ Tok(k).ok /\ Tok(k).level > 0}

\* C5: every entry of every record comes from a grammar-matching line of level
\* > 0 between the record's opening level-0 line and the next grammar-matching
\* level-0 line (no more entries under a tag than such lines with that tag),
\* and every sub-tag value of an entry comes from a grammar-matching line of
\* that span after the entry's line; so a line that fails the grammar, or that
\* follows a level-0 line opening no record, is in no record.
C5_EntriesFromRecordSpan ==
    \A rec \in AllRecords :
        \A t \in DOMAIN rec.raw :
            LET from == SortedSeq({k \in BodyLines(rec) : Tok(k).tag = t})
            IN /\ Len(rec.raw[t]) <= Len(from)
               /\ \A n \in 1..Len(rec.raw[t]) :
                    /\ rec.raw[t][n].value = Tok(from[n]).value
                    /\ \A u \in DOMAIN rec.raw[t][n].sub :
                        \A x \in 1..Len(rec.raw[t][n].sub[u]) :
                            \E j \in (from[n] + 1)..(NextAtMost(Opener(rec), 0) - 1) :
                                /\ Tok(j).ok /\ Tok(j).level > 1 /\ Tok(j).tag = u
                                /\ Tok(j).value = rec.raw[t][n].sub[u][x]

\* a parsed file in which a record holds an entry, a line failing the grammar
\* lies inside the record, and the level-0 line that ends the record opens no
\* record and is followed by a deeper line
C5_Witness ==
    /\ pc = "parsed"
    /\ \E rec \in AllRecords :
          LET e == NextAtMost(Opener(rec), 0)
          IN /\ DOMAIN rec.raw # {}
             /\ \E k \in (Opener(rec) + 1)..(e - 1) :
                   TokenOf[lines[k]].line # <<>> /\ ~Tok(k).ok
             /\ e < Len(lines)
             /\ OpenRecord(NoRecord, Tok(e)) = NoRecord
             /\ Tok(e + 1).ok /\ Tok(e + 1).level > 0

\* the sub map the entry of line k is to hold: per sub-tag, in file order, the
\* values of the grammar-matching lines of level L + 1 after k and before the
\* first later grammar-matching line of level <= L
ExpectedSub(k) ==
    LET L == Tok(k).level
        span == {j \in (k + 1)..(NextAtMost(k, L) - 1) : Tok(j).ok /\ Tok(j).level = L + 1}
    IN [u \in {Tok(j).tag : j \in span} |->
           LET js == SortedSeq({j \in span : Tok(j).tag = u})
           IN [x \in 1..Len(js) |-> Tok(js[x]).value]]

CapturedAsSub(n) ==
    /\ current_record # NoRecord
    /\ Tok(n).ok /\ Tok(n).level >= 2
    /\ \E k \in 1..(n - 1) :
          /\ Tok(k).ok /\ Tok(k).level = Tok(n).level - 1
          /\ \A j \in k..n : Tok(j).ok => Tok(j).level > 0
          /\ NextAtMost(k, Tok(k).level) > n

\* C9: the outer pass's handling of a line of level >= 2 that a look-ahead has
\* captured as a sub-tag value leaves every record's tag-to-entries map unchanged.
C9_OuterPassNoOpOnSubTag ==
    [][(pc = "parse" /\ i < Len(lines) /\ CapturedAsSub(i + 1))
          => (individuals' = individuals /\ families' = families /\ sources' = sources)]_vars

(* ---------------------- claims about the pipeline ----------------------- *)

\* the level-0 lines that open a record of the type under a cross-reference id
\* no earlier line of the file opened one under, in file order
FirstOpeners(type) ==
    SortedSeq({k \in 1..Len(lines) :
        /\ Tok(k).ok /\ Tok(k).level = 0 /\ Tok(k).tag = type /\ Tok(k).xref_id # None
        /\ \A j \in 1..(k - 1) :
              ~(Tok(j).ok /\ Tok(j).level = 0 /\ Tok(j).tag = type
                  /\ Tok(j).xref_id = Tok(k).xref_id)})

\* the level-0 lines of the file that open a record of the type
Openers(type) ==
    {k \in 1..Len(lines) :
        Tok(k).ok /\ Tok(k).level = 0 /\ Tok(k).tag = type /\ Tok(k).xref_id # None}

\* C1: once id_mapping.json is written, the people are the persons of the file
\* in the order their cross-reference ids first open an INDI record, the
\* inverse table maps each person's new id back to that cross-reference id
\* without its @ markers, no two people share a new id, and both tables have
\* one row per person; a cross-reference id opening several INDI records
\* gives one person.
C1_IdRoundTrip ==
    pc = "done" =>
        /\ Len(people) = Len(FirstOpeners(INDI))
        /\ Len(id_mapping) = Len(people)
        /\ Len(inverted) = Len(people)
        /\ \A n \in 1..Len(people) :
              /\ DictHas(inverted, people[n].id)
              /\ DictGet(inverted, people[n].id) = StripAt(Tok(FirstOpeners(INDI)[n]).xref_id)
              /\ DictGet(id_mapping, DictGet(inverted, people[n].id)) = people[n].id
        /\ \A m, n \in 1..Len(people) : m # n => people[m].id # people[n].id

\* a written mapping of at least two people from a file in which one
\* cross-reference id opens two INDI records
C1_Witness ==
    /\ pc = "done"
    /\ Len(people) >= 2
    /\ \E j, k \in Openers(INDI) : j < k /\ Tok(j).xref_id = Tok(k).xref_id

\* the family of index k, as extract_family returned it
Fam(k) == family_data[k].v

BothSet(f) == Truthy(f.husband) /\ Truthy(f.wife)

\* the number of parents that are set
NumParents(f) == (IF Truthy(f.husband) THEN 1 ELSE 0) + (IF Truthy(f.wife) THEN 1 ELSE 0)

\* the number of edges of the family
NumEdges(f) == (IF BothSet(f) THEN 1 ELSE 0) + NumParents(f) * Len(f.children)

\* the number of edges of the families before the family of index k
RECURSIVE Offset(_)
Offset(k) == IF k <= 1 THEN 0 ELSE Offset(k - 1) + NumEdges(Fam(k - 1))

\* the positions in relationships of the edges of the family of index k
Segment(k) == (Offset(k) + 1)..(Offset(k) + NumEdges(Fam(k)))

\* whether the first line of the tag in the FAM record of index k carries a
\* value that is not empty once its @ markers are removed
LineSets(k, tag) ==
    /\ tag \in DOMAIN families[k].v.raw
    /\ StripAt(families[k].v.raw[tag][1].value) # <<>>

\* C2: the edges of each family are one segment of relationships; a family
\* whose HUSB and WIFE lines both carry an id has exactly one spouse edge in
\* its segment, the first one, with person1 the husband and person2 the wife;
\* a family with neither, with only one, or with a HUSB or WIFE line of empty
\* value, has none.
C2_SpouseEdgePerFamily ==
    pc = "built" =>
        /\ Len(family_data) = Len(families)
        /\ Offset(Len(family_data) + 1) = Len(relationships)
        /\ \A k \in 1..Len(family_data) :
              LET spouses == {n \in Segment(k) : relationships[n].type = SPOUSE}
              IN /\ BothSet(Fam(k)) <=> (LineSets(k, HUSB) /\ LineSets(k, WIFE))
                 /\ IF LineSets(k, HUSB) /\ LineSets(k, WIFE)
                    THEN /\ spouses = {Offset(k) + 1}
                         /\ relationships[Offset(k) + 1].person1
                               = StripAt(families[k].v.raw[HUSB][1].value)
                         /\ relationships[Offset(k) + 1].person2
                               = StripAt(families[k].v.raw[WIFE][1].value)
                    ELSE spouses = {}

\* built relationships of a file with a family of both spouses, a family of
\* none, and a family whose HUSB line has an empty value beside a WIFE line
C2_Witness ==
    /\ pc = "built"
    /\ \E k \in 1..Len(family_data) : BothSet(Fam(k))
    /\ \E k \in 1..Len(family_data) : Fam(k).husband = None /\ Fam(k).wife = None
    /\ \E k \in 1..Len(family_data) :
          /\ HUSB \in DOMAIN families[k].v.raw
          /\ ~LineSets(k, HUSB)
          /\ LineSets(k, WIFE)

\* the number of CHIL lines of the family that carry the child id
Occurrences(f, child) == Cardinality({c \in 1..Len(f.children) : f.children[c] = child})

\* the parent-child edges of the segment of family k that carry the child id
EdgesOfChild(k, child) ==
    {n \in Segment(k) : relationships[n].type = PARENT_CHILD /\ relationships[n].child = child}

\* the children list of family k is its CHIL lines, in order
ChildrenAreChilLines(k) ==
    LET raw == families[k].v.raw
    IN /\ Len(Fam(k).children) = (IF CHIL \in DOMAIN raw THEN Len(raw[CHIL]) ELSE 0)
       /\ \A c \in 1..Len(Fam(k).children) : Fam(k).children[c] = StripAt(raw[CHIL][c].value)

\* C3 as stated: in a family of both parents every child id of the children list
\* has exactly two parent-child edges, one from the husband and one from the
\* wife, also where the id stands on more than one CHIL line.
C3_TwoEdgesPerChildId ==
    pc = "built" =>
        /\ Offset(Len(family_data) + 1) = Len(relationships)
        /\ \A k \in 1..Len(family_data) :
            BothSet(Fam(k)) =>
                \A c \in 1..Len(Fam(k).children) :
                    /\ Cardinality(EdgesOfChild(k, Fam(k).children[c])) = 2
                    /\ \E n \in EdgesOfChild(k, Fam(k).children[c]) :
                          relationships[n].parent = Fam(k).husband
                    /\ \E n \in EdgesOfChild(k, Fam(k).children[c]) :
                          relationships[n].parent = Fam(k).wife

\* C3: in a family of both parents every CHIL line yields exactly two
\* parent-child edges, the first from the husband and the second from the wife,
\* both with the child id of the line, and the family has no other parent-child
\* edges; so a child id on n CHIL lines of the family has 2 * n edges, two only
\* where it is on one line.
C3_TwoEdgesPerChilLine ==
    pc = "built" =>
        /\ Offset(Len(family_data) + 1) = Len(relationships)
        /\ \A k \in 1..Len(family_data) :
            /\ ChildrenAreChilLines(k)
            /\ BothSet(Fam(k)) =>
                  /\ \A c \in 1..Len(Fam(k).children) :
                        LET at == Offset(k) + 1 + 2 * (c - 1)
                        IN /\ relationships[at + 1].type = PARENT_CHILD
                           /\ relationships[at + 1].parent = Fam(k).husband
                           /\ relationships[at + 1].child = Fam(k).children[c]
                           /\ relationships[at + 2].type = PARENT_CHILD
                           /\ relationships[at + 2].parent = Fam(k).wife
                           /\ relationships[at + 2].child = Fam(k).children[c]
                           /\ Cardinality(EdgesOfChild(k, Fam(k).children[c]))
                                 = 2 * Occurrences(Fam(k), Fam(k).children[c])
                  /\ Cardinality({n \in Segment(k) : relationships[n].type = PARENT_CHILD})
                        = 2 * Len(Fam(k).children)

\* built relationships of a family of both parents with a child on two CHIL
\* lines, which has four edges, and a child on one, which has two
C3_Witness ==
    /\ pc = "built"
    /\ \E k \in 1..Len(family_data) :
          /\ BothSet(Fam(k))
          /\ \E c \in 1..Len(Fam(k).children) :
                /\ Occurrences(Fam(k), Fam(k).children[c]) = 2
                /\ Cardinality(EdgesOfChild(k, Fam(k).children[c])) = 4
    /\ \E k \in 1..Len(family_data) :
          /\ BothSet(Fam(k))
          /\ \E c \in 1..Len(Fam(k).children) :
                /\ Occurrences(Fam(k), Fam(k).children[c]) = 1
                /\ Cardinality(EdgesOfChild(k, Fam(k).children[c])) = 2

\* r followed by k in three digits, for k < 1000
EdgeId(k) ==
    <<"r", Digits[(k \div 100) + 1], Digits[((k \div 10) % 10) + 1], Digits[(k % 10) + 1]>>

\* what an edge is about: its type and its two endpoints
Kind(type, a, b) == [type |-> type, a |-> a, b |-> b]

KindOf(rel) ==
    IF rel.type = SPOUSE THEN Kind(SPOUSE, rel.person1, rel.person2)
    ELSE Kind(PARENT_CHILD, rel.parent, rel.child)

\* the edges of the children of the family from the CHIL line c on: child by
\* child, the husband's edge before the wife's
RECURSIVE ChildKinds(_, _)
ChildKinds(f, c) ==
    IF c > Len(f.children) THEN <<>>
    ELSE (IF Truthy(f.husband) THEN <<Kind(PARENT_CHILD, f.husband, f.children[c])>> ELSE <<>>)
         \o (IF Truthy(f.wife) THEN <<Kind(PARENT_CHILD, f.wife, f.children[c])>> ELSE <<>>)
         \o ChildKinds(f, c + 1)

\* the edges of the families from the family of index k on, the spouse edge of
\* a family before the edges of its children
RECURSIVE KindsFrom(_)
KindsFrom(k) ==
    IF k > Len(family_data) THEN <<>>
    ELSE (IF BothSet(Fam(k)) THEN <<Kind(SPOUSE, Fam(k).husband, Fam(k).wife)>> ELSE <<>>)
         \o ChildKinds(Fam(k), 1) \o KindsFrom(k + 1)

\* C4: the k-th edge has the id r and k in three digits; the families are taken
\* in the order their cross-reference ids first open a FAM record in the file,
\* in a family the spouse edge comes first and the parent-child edges follow
\* child by child in CHIL order, the husband's before the wife's.
C4_EdgeIdsAndOrder ==
    pc = "built" =>
        /\ \A k \in 1..Len(relationships) : relationships[k].id = EdgeId(k)
        /\ Len(family_data) = Len(FirstOpeners(FAM))
        /\ \A k \in 1..Len(family_data) :
              family_data[k].k = StripAt(Tok(FirstOpeners(FAM)[k]).xref_id)
        /\ [n \in 1..Len(relationships) |-> KindOf(relationships[n])] = KindsFrom(1)

\* built relationships of a file in which a FAM record is listed again after
\* another family, with a spouse edge that follows a parent-child edge from
\* the wife of an earlier family
C4_Witness ==
    /\ pc = "built"
    /\ Len(family_data) >= 2
    /\ \E j, k \in Openers(FAM) : j + 1 < k /\ Tok(j).xref_id = Tok(k).xref_id
          /\ \E x \in (j + 1)..(k - 1) : x \in Openers(FAM) /\ Tok(x).xref_id # Tok(j).xref_id
    /\ \E n \in 2..Len(relationships) :
          /\ relationships[n].type = SPOUSE
          /\ relationships[n - 1].type = PARENT_CHILD
          /\ relationships[n - 1].parent = Fam(1).wife

EndpointFields == {"person1", "person2", "parent", "child"}

\* C6: remap_ids gives every endpoint field of every edge the new id its value
\* maps to where the value is a key of id_mapping, and leaves the value as it
\* is where it is not; the list keeps its length and order, and every edge its
\* fields, its id and its type.
C6_RemapKeepsDangling ==
    [][pc = "mapped" =>
          /\ pc' = "remapped"
          /\ Len(relationships') = Len(relationships)
          /\ \A n \in 1..Len(relationships) :
                /\ DOMAIN relationships'[n] = DOMAIN relationships[n]
                /\ \A f \in DOMAIN relationships[n] :
                      relationships'[n][f] =
                          IF f \in EndpointFields /\ DictHas(id_mapping, relationships[n][f])
                          THEN DictGet(id_mapping, relationships[n][f])
                          ELSE relationships[n][f]]_vars

\* the new ids given to people
NewIds == {id_mapping[n].v : n \in 1..Len(id_mapping)}

\* remapped relationships with an edge one endpoint of which is a new id and the
\* other a reference to no person of the file, left as it was
C6_Witness ==
    /\ pc = "remapped"
    /\ \E n \in 1..Len(relationships) :
          \E f, g \in EndpointFields \cap DOMAIN relationships[n] :
              /\ relationships[n][f] \in NewIds
              /\ relationships[n][g] \notin NewIds
              /\ relationships[n][g] # <<>>

\* C10: every item of every person's residences has a date or a place that is
\* neither none nor empty.
C10_ResidencesPopulated ==
    \A n \in 1..Len(people) :
        \A r \in 1..Len(people[n].residences) :
            LET residence == people[n].residences[r]
            IN \/ ("date" \in DOMAIN residence /\ Truthy(residence["date"]))
               \/ ("place" \in DOMAIN residence /\ Truthy(residence["place"]))

(* --------------------- format_date on its own --------------------------- *)

MaxPad == 1

\* runs of at most n blanks
RECURSIVE Blanks(_)
Blanks(n) == IF n = 0 THEN {<<>>} ELSE Blanks(n - 1) \cup {[k \in 1..n |-> " "]}

DateHeads ==
    { <<>>, <<"A","B","T"," ">>, <<"a","b","t"," ">>, <<"A","b","o","u","t"," ">>, <<"C","I","R","C","A"," ">>, <<"B","E","F"," ">>, <<"A","f","t"," ">>, <<"E","S","T"," ">>,
      <<"A","B","T">>, <<"A","B","T","\t">>, <<"A","B","T"," "," ">>, <<"A","B","T","S"," ">>, <<"I","N","T"," ">> }

DateBodies ==
    { <<>>, <<"1","8","5","0">>, <<"S","p","r","i","n","g"," ","1","8","8","8">>, <<"1","5"," ","M","a","r"," ","1","8","9","2">>, <<"M","A","R"," ","1","9","0","0">>, <<"M","a","r","c","h"," ","1","5",","," ","1","8","9","2">>,
      <<"1","2"," ","J","a","n"," ","1","9","2","0">>, <<"5"," ","m","a","y"," ","6","8">>, <<"1","5"," ","M","a","r"," ","9","2">>, <<"3","1"," ","F","e","b"," ","1","9","0","0">>, <<"2","9"," ","F","e","b"," ","2","0","0","0">>,
      <<"1","8","5">>, <<"0","0","0","0">>, <<"B","E","F"," ","1","8","5","0">>, <<"S","e","p"," ","3",",","1","9","0","0">> }

DateInputs ==
    {None} \cup {a \o h \o b \o z : a \in Blanks(MaxPad), h \in DateHeads,
                                   b \in DateBodies, z \in Blanks(MaxPad)}

InitDate ==
    /\ date_str \in DateInputs
    /\ result = None
    /\ pc = "date"
    /\ lines = <<>> /\ i = 0 /\ current_record = NoRecord
    /\ individuals = <<>> /\ families = <<>> /\ sources = <<>>
    /\ people = <<>> /\ family_data = <<>>
    /\ relationships = <<>>
    /\ id_mapping = <<>> /\ inverted = <<>>

\* a call of format_date
FormatDate ==
    /\ pc = "date"
    /\ result' = format_date(date_str)
    /\ pc' = "dated"
    /\ UNCHANGED <<lines, i, current_record, individuals, families, sources,
                   people, family_data, relationships,
                   id_mapping, inverted, date_str>>

NextDate == FormatDate

SpecDate == InitDate /\ [][NextDate]_vars

(* ------------------------ claims about format_date --------------------- *)

\* the text without the whitespace at its ends
Trimmed(s) ==
    LET inner == {k \in 1..Len(s) : ~IsSpace(s[k])}
    IN IF inner = {} THEN <<>> ELSE SubSeq(s, Min(inner), Max(inner))

\* the qualifier word of the text: the output word of the qualifier the text
\* begins with, as a whole word before a space and in any case, or nothing
Qualifier(s) ==
    LET spaces == {k \in 1..Len(s) : s[k] = " "}
        word == IF spaces = {} THEN <<>> ELSE Upper(SubSeq(s, 1, Min(spaces) - 1))
    IN IF word \in {<<"A","B","T">>, <<"A","B","O","U","T">>, <<"C","I","R","C","A">>, <<"E","S","T">>} THEN <<"c","i","r","c","a"," ">>
       ELSE IF word = <<"B","E","F">> THEN <<"b","e","f","o","r","e"," ">>
       ELSE IF word = <<"A","F","T">> THEN <<"a","f","t","e","r"," ">>
       ELSE <<>>

\* the text after its qualifier and the space that ends it
Remainder(s) ==
    IF Qualifier(s) = <<>> THEN s
    ELSE SubSeq(s, Min({k \in 1..Len(s) : s[k] = " "}) + 1, Len(s))

\* whether strptime accepts the text under one of the date formats
MatchesPattern(s) == \E n \in 1..Len(DateFormats) : Strptime(s, DateFormats[n]).ok

\* C7 as stated: the result is none only for the empty or absent input, and
\* for every other input whose remainder after the qualifier matches no date
\* pattern it is the qualifier word followed by that remainder of the input.
C7_FallbackOfInput ==
    pc = "dated" =>
        /\ result = None => date_str \in {None, <<>>}
        /\ (date_str \notin {None, <<>>} /\ ~MatchesPattern(Remainder(date_str))) =>
              result = Qualifier(date_str) \o Remainder(date_str)

\* C7: with the whitespace at the ends of the input set aside, the result is
\* none exactly for the absent, empty or all-whitespace input; otherwise it
\* begins with the qualifier word of the trimmed input (circa for ABT, ABOUT,
\* CIRCA and EST, before for BEF, after for AFT, nothing else), and where the
\* remainder of the trimmed input matches no date pattern it is the qualifier
\* word followed by that remainder verbatim.
C7_FallbackOfTrimmedInput ==
    pc = "dated" =>
        /\ result = None <=> (date_str = None \/ Trimmed(date_str) = <<>>)
        /\ result # None =>
              /\ StartsWith(result, Qualifier(Trimmed(date_str)))
              /\ ~MatchesPattern(Remainder(Trimmed(date_str))) =>
                    result = Qualifier(Trimmed(date_str)) \o Remainder(Trimmed(date_str))
        /\ date_str = <<"S","p","r","i","n","g"," ","1","8","8","8">> => result = <<"S","p","r","i","n","g"," ","1","8","8","8">>
        /\ date_str = <<"A","B","T"," ","1","8","5","0">> => result = <<"c","i","r","c","a"," ","1","8","5","0">>

\* a call on an input with whitespace at an end, the qualifier BEF and a
\* remainder that matches no date pattern
C7_Witness ==
    /\ pc = "dated"
    /\ date_str # None
    /\ Trimmed(date_str) # date_str
    /\ Qualifier(Trimmed(date_str)) = <<"b","e","f","o","r","e"," ">>
    /\ ~MatchesPattern(Remainder(Trimmed(date_str)))
    /\ result = <<"b","e","f","o","r","e"," ">> \o Remainder(Trimmed(date_str))
====
